---- MODULE Spec2Model ----
(***************************************************************************)
(* Provider routing and error normalisation of the Streamlit gateway       *)
(* (src/serviceproxy/gateway_on_streamlit/run.py, utils.py).               *)
(*                                                                         *)
(* Python values that may be None are records [isNone, text]; the vendor   *)
(* SDKs are black boxes whose outcome is chosen nondeterministically at    *)
(* the one place the code calls them.                                      *)
(***************************************************************************)
EXTENDS Naturals, Sequences, FiniteSets

VARIABLES
    pc,           \* position in the script / in invoke
    req,          \* the arguments of the invocation in progress
    viaUI,        \* invoke was called from the chat-input block
    genaiConfig,  \* process-global configuration set by genai.configure
    azureClient,  \* the AzureOpenAI client local to _azure_generate
    secretsRead,  \* fields of secret_variables read for this prompt
    calls,        \* backend requests sent by the invocation in progress
    behaviour,    \* what the SDK call did
    response,     \* local `response` of invoke
    raised,       \* exception raised inside the try block of invoke
    result,       \* value invoke returned
    escaped,      \* exception that left invoke
    uiError,      \* exception that left the script run
    messages,     \* st.session_state.messages
    snap          \* an earlier invocation kept for comparison

vars == <<pc, req, viaUI, genaiConfig, azureClient, secretsRead, calls,
          behaviour, response, raised, result, escaped, uiError, messages,
          snap>>

(* ------------------------------ bounds --------------------------------- *)

\* Number of prompts submitted through the chat input in one session.
MaxTurns == 1

\* Entries of st.session_state.messages after that many turns: the greeting,
\* then a prompt and a response per turn.
MaxMessages == 1 + 2 * MaxTurns

(* ------------------------- Python values ------------------------------- *)

Str(s) == [isNone |-> FALSE, text |-> s]

None == [isNone |-> TRUE, text |-> ""]

\* The local `response` of invoke before either branch has assigned it.
Unbound == [isNone |-> TRUE, text |-> "<unbound>"]

\* invoke has not returned.
NotReturned == [isNone |-> TRUE, text |-> "<not returned>"]

(* --------------------------- input domains ----------------------------- *)

KnownProviders == {"google-generativeai", "azure-openai"}

ProviderSelectors == KnownProviders \cup {"anthropic"}

Prompts == {"", "hi"}

ModelNames == {"gemini-pro", "gpt-4o"}

ResponseTexts == {"hello", ""}

ErrorMessages == {"quota exceeded", "rate limit reached"}

(* --------------------------- constants --------------------------------- *)

EmptyPromptMessage == "Your prompt is empty; please re-type your prompt and try again!"

GenericErrorMessage == "An error occurred while processing the request."

Greeting == "How may I assist you today?"

\* Arguments genai.configure leaves at their defaults.
DefaultTransport == "default"

DefaultEndpoint == "generativelanguage.googleapis.com"

\* The SecretVariables instance built once at import time; every field holds
\* the value of the environment variable of the same name.
secret_variables ==
    [aether_api_key            |-> "AETHER_API_KEY",
     aether_proxy_endpoint     |-> "AETHER_PROXY_ENDPOINT",
     azure_api_key             |-> "AZURE_API_KEY",
     azure_endpoint            |-> "AZURE_ENDPOINT",
     azure_openai_api_version  |-> "AZURE_OPENAI_API_VERSION",
     azure_provider_deployment |-> "AZURE_PROVIDER_MODEL",
     google_api_key            |-> "GOOGLE_API_KEY"]

(* ----------------------- backend behaviours ---------------------------- *)

\* What the body of an API error looks like.  shape: "none" (Gemini: the
\* exception has no HTTP response; Azure: exc.body is None), "str" (Azure:
\* the body is not a mapping), "json" (a mapping).  hasError is the presence
\* of the "error" object (Gemini only), hasMessage that of "message".
ErrorBody(shape, hasError, hasMessage, message) ==
    [shape |-> shape, hasError |-> hasError, hasMessage |-> hasMessage,
     message |-> message]

NoBody == ErrorBody("none", FALSE, FALSE, "")

Behaviour(kind, text, repr, body) ==
    [kind |-> kind, text |-> text, repr |-> repr, body |-> body]

NoBehaviour == Behaviour("not_called", "", "", NoBody)

GeminiErrorBodies ==
    {NoBody, ErrorBody("json", FALSE, FALSE, ""), ErrorBody("json", TRUE, FALSE, "")}
    \cup {ErrorBody("json", TRUE, TRUE, m) : m \in ErrorMessages}

AzureErrorBodies ==
    {NoBody, ErrorBody("str", FALSE, FALSE, ""), ErrorBody("json", FALSE, FALSE, "")}
    \cup {ErrorBody("json", FALSE, TRUE, m) : m \in ErrorMessages}

\* model.generate_content(prompt) followed by response.text: a text, no text
\* (None), a GoogleAPIError, or any other exception (response.text raises
\* ValueError when the candidate carries no parts).
GeminiBehaviours ==
    {Behaviour("text", t, "", NoBody) : t \in ResponseTexts}
    \cup {Behaviour("no_text", "", "", NoBody)}
    \cup {Behaviour("api_error", "", "GoogleAPIError()", b) : b \in GeminiErrorBodies}
    \cup {Behaviour("other_error", "", "ValueError()", NoBody)}

\* client.chat.completions.create(...) followed by choices[0].message.content.
AzureBehaviours ==
    {Behaviour("text", t, "", NoBody) : t \in ResponseTexts}
    \cup {Behaviour("no_text", "", "", NoBody)}
    \cup {Behaviour("api_error", "", "APIError()", b) : b \in AzureErrorBodies}
    \cup {Behaviour("other_error", "", "RuntimeError()", NoBody)}

(* ------------------------ error normalisation -------------------------- *)

\* The value a helper produces: a returned value, or an exception it raises.
Returned(v) == [raised |-> "", value |-> v]

Raised(e) == [raised |-> e, value |-> Unbound]

\* Variant: the "message" key is looked up in the top-level body instead of
\* in the "error" object, so the fallback is always taken.
handle_gemini_exception_TopLevel(exc) ==
    IF exc.body.shape = "none"
    THEN Raised("AttributeError")
    ELSE Returned(Str(exc.repr))

\* exc.response.json().get("error", {}).get("message", repr(exc))
handle_gemini_exception(exc) ==
    IF exc.body.shape = "none"
    THEN Raised("AttributeError")
    ELSE IF exc.body.hasError /\ exc.body.hasMessage
         THEN Returned(Str(exc.body.message))
         ELSE Returned(Str(exc.repr))

\* exc.body.get("message", repr(exc))
handle_azure_exception(exc) ==
    IF exc.body.shape # "json"
    THEN Raised("AttributeError")
    ELSE IF exc.body.hasMessage
         THEN Returned(Str(exc.body.message))
         ELSE Returned(Str(exc.repr))

(* --------------------------- client set-up ----------------------------- *)

ClientConfig(api_key, transport, endpoint) ==
    [api_key |-> api_key, transport |-> transport, api_endpoint |-> endpoint]

Unconfigured == ClientConfig("", "", "")

\* Variant: an argument the caller omits keeps the value of the previous
\* configuration.
GenaiConfigure_Merge(old, api_key, transport, endpoint) ==
    IF old = Unconfigured
    THEN ClientConfig(api_key, transport, endpoint)
    ELSE ClientConfig(api_key,
                      IF transport = DefaultTransport THEN old.transport ELSE transport,
                      IF endpoint = DefaultEndpoint THEN old.api_endpoint ELSE endpoint)

\* genai.configure(...): replaces the process-global client configuration;
\* an argument the caller omits takes its default.
GenaiConfigure(old, api_key, transport, endpoint) ==
    ClientConfig(api_key, transport, endpoint)

\* The secrets _google_generate reads and the configuration it installs.
GoogleSecrets(is_enterprise_mode) ==
    IF is_enterprise_mode
    THEN {"aether_api_key", "aether_proxy_endpoint"}
    ELSE {"google_api_key"}

GoogleConfig(old, is_enterprise_mode) ==
    IF is_enterprise_mode
    THEN GenaiConfigure(old, secret_variables.aether_api_key, "rest",
                        secret_variables.aether_proxy_endpoint)
    ELSE GenaiConfigure(old, secret_variables.google_api_key,
                        DefaultTransport, DefaultEndpoint)

\* The secrets _azure_generate reads and the AzureOpenAI client it builds.
AzureSecrets(is_enterprise_mode) ==
    IF is_enterprise_mode
    THEN {"aether_api_key", "aether_proxy_endpoint", "azure_openai_api_version"}
    ELSE {"azure_api_key", "azure_endpoint", "azure_openai_api_version"}

\* Variant: the direct branch passes the direct key with the proxy endpoint.
AzureOpenAI_ProxyEndpoint(is_enterprise_mode) ==
    IF is_enterprise_mode
    THEN ClientConfig(secret_variables.aether_api_key,
                      secret_variables.azure_openai_api_version,
                      secret_variables.aether_proxy_endpoint)
    ELSE ClientConfig(secret_variables.azure_api_key,
                      secret_variables.azure_openai_api_version,
                      secret_variables.aether_proxy_endpoint)

AzureOpenAI(is_enterprise_mode) ==
    IF is_enterprise_mode
    THEN ClientConfig(secret_variables.aether_api_key,
                      secret_variables.azure_openai_api_version,
                      secret_variables.aether_proxy_endpoint)
    ELSE ClientConfig(secret_variables.azure_api_key,
                      secret_variables.azure_openai_api_version,
                      secret_variables.azure_endpoint)

\* One request as the backend sees it.
BackendRequest(backend, client, model, prompt) ==
    [backend |-> backend, model |-> model, prompt |-> prompt,
     api_key |-> client.api_key, endpoint |-> client.api_endpoint]

(* ------------------------------ state ---------------------------------- *)

Request(prompt, llm_provider, model_name, is_enterprise_mode) ==
    [prompt |-> prompt, llm_provider |-> llm_provider,
     model_name |-> model_name, is_enterprise_mode |-> is_enterprise_mode]

NoRequest == Request("", "google-generativeai", "", FALSE)

Message(role, text) == [role |-> role, response |-> text]

Outcome(res, cs) == [result |-> res, calls |-> cs]

\* An invocation the observer keeps: its request, what the backend did, what
\* came of it, and whether an invocation with another request has completed
\* since.
Snapshot(taken, r, b, o, mixed) ==
    [taken |-> taken, req |-> r, behaviour |-> b, outcome |-> o,
     mixed |-> mixed]

NoSnapshot ==
    Snapshot(FALSE, NoRequest, NoBehaviour, Outcome(NotReturned, <<>>), FALSE)

Init ==
    /\ pc = "idle"
    /\ req = NoRequest
    /\ viaUI = FALSE
    /\ genaiConfig = Unconfigured
    /\ azureClient = Unconfigured
    /\ secretsRead = {}
    /\ calls = <<>>
    /\ behaviour = NoBehaviour
    /\ response = Unbound
    /\ raised = ""
    /\ result = NotReturned
    /\ escaped = ""
    /\ uiError = ""
    /\ messages = <<Message("assistant", Greeting)>>
    /\ snap = NoSnapshot

\* Entering invoke with request r.
EnterInvoke(r, ui, secrets) ==
    /\ pc' = "invoke"
    /\ req' = r
    /\ viaUI' = ui
    /\ secretsRead' = secrets
    /\ UNCHANGED <<azureClient, calls, behaviour, response, raised, result,
                   escaped>>

\* Leaving invoke: its locals and the record of what it did are gone.
LeaveInvoke ==
    /\ pc' = "idle"
    /\ req' = NoRequest
    /\ viaUI' = FALSE
    /\ secretsRead' = {}
    /\ calls' = <<>>
    /\ behaviour' = NoBehaviour
    /\ response' = Unbound
    /\ raised' = ""
    /\ result' = NotReturned
    /\ escaped' = ""
    /\ azureClient' = Unconfigured

(* ------------------------- the provider helpers ------------------------ *)

\* _google_generate after genai.configure: the value it returns or the
\* exception that leaves it, given what the Gemini SDK does.
GoogleGenerate(b) ==
    CASE b.kind = "text"      -> Returned(Str(b.text))
      [] b.kind = "no_text"   -> Returned(None)
      [] b.kind = "api_error" -> handle_gemini_exception(b)
      [] OTHER                -> Raised("ValueError")

\* _azure_generate after the client is built.
AzureGenerate(b) ==
    CASE b.kind = "text"      -> Returned(Str(b.text))
      [] b.kind = "no_text"   -> Returned(None)
      [] b.kind = "api_error" -> handle_azure_exception(b)
      [] OTHER                -> Raised("RuntimeError")

\* Variant: the clause catches NoResponseException only.
InvokeExcept_Narrow(e) ==
    IF e = "NoResponseException"
    THEN Returned(Str(GenericErrorMessage))
    ELSE Raised(e)

\* `except Exception as e` of invoke: every exception raised in the try
\* block ends in the generic string.
InvokeExcept(e) ==
    Returned(Str(GenericErrorMessage))

(* ------------------------------ call site ------------------------------ *)

\* The script run for a submitted chat prompt with a known provider: the
\* walrus test admits only a non-empty prompt.
ChatInput ==
    \E prompt \in Prompts \ {""}, llm_provider \in KnownProviders,
       model_selected \in ModelNames, is_enterprise_mode \in BOOLEAN :
        /\ pc = "idle"
        /\ Len(messages) + 2 <= MaxMessages
        /\ messages' = Append(messages, Message("user", prompt))
        /\ uiError' = ""
        /\ IF llm_provider = "google-generativeai"
           THEN EnterInvoke(Request(prompt, llm_provider, model_selected,
                                    is_enterprise_mode), TRUE, {})
           ELSE EnterInvoke(Request(prompt, llm_provider,
                                    secret_variables.azure_provider_deployment,
                                    is_enterprise_mode),
                            TRUE, {"azure_provider_deployment"})
        /\ UNCHANGED <<genaiConfig, snap>>

\* The same script run when st.session_state.llm_provider is neither known
\* provider: LLMProviderNotFoundException leaves the script, invoke is not
\* called.
ChatInputUnknownProvider ==
    \E prompt \in Prompts \ {""}, llm_provider \in ProviderSelectors \ KnownProviders :
        /\ pc = "idle"
        /\ Len(messages) + 2 <= MaxMessages
        /\ messages' = Append(messages, Message("user", prompt))
        /\ uiError' = "LLMProviderNotFoundException"
        /\ UNCHANGED <<pc, req, viaUI, genaiConfig, azureClient, secretsRead,
                       calls, behaviour, response, raised, result, escaped,
                       snap>>

\* Any other caller of invoke (it is a module-level function): every
\* argument combination.
InvokeCall ==
    \E prompt \in Prompts, llm_provider \in ProviderSelectors,
       model_name \in ModelNames, is_enterprise_mode \in BOOLEAN :
        /\ pc = "idle"
        /\ EnterInvoke(Request(prompt, llm_provider, model_name,
                               is_enterprise_mode), FALSE, {})
        /\ UNCHANGED <<genaiConfig, uiError, messages, snap>>

(* -------------------------------- invoke ------------------------------- *)

\* `if prompt:` is false: the advisory string is returned.
InvokeEmptyPrompt ==
    /\ pc = "invoke"
    /\ req.prompt = ""
    /\ result' = Str(EmptyPromptMessage)
    /\ pc' = "done"
    /\ UNCHANGED <<req, viaUI, genaiConfig, azureClient, secretsRead, calls,
                   behaviour, response, raised, escaped, uiError, messages,
                   snap>>

\* Variant: the branch is taken without the `if prompt:` test.
GoogleSetup_AnyPrompt ==
    /\ pc = "invoke"
    /\ req.llm_provider = "google-generativeai"
    /\ genaiConfig' = GoogleConfig(genaiConfig, req.is_enterprise_mode)
    /\ secretsRead' = secretsRead \cup GoogleSecrets(req.is_enterprise_mode)
    /\ pc' = "google_call"
    /\ UNCHANGED <<req, viaUI, azureClient, calls, behaviour, response,
                   raised, result, escaped, uiError, messages, snap>>

\* The Gemini branch up to the call: genai.configure with the credentials of
\* the mode.
GoogleSetup ==
    /\ pc = "invoke"
    /\ req.prompt # ""
    /\ req.llm_provider = "google-generativeai"
    /\ genaiConfig' = GoogleConfig(genaiConfig, req.is_enterprise_mode)
    /\ secretsRead' = secretsRead \cup GoogleSecrets(req.is_enterprise_mode)
    /\ pc' = "google_call"
    /\ UNCHANGED <<req, viaUI, azureClient, calls, behaviour, response,
                   raised, result, escaped, uiError, messages, snap>>

\* The Azure branch up to the call: a fresh AzureOpenAI client.
AzureSetup ==
    /\ pc = "invoke"
    /\ req.prompt # ""
    /\ req.llm_provider = "azure-openai"
    /\ azureClient' = AzureOpenAI(req.is_enterprise_mode)
    /\ secretsRead' = secretsRead \cup AzureSecrets(req.is_enterprise_mode)
    /\ pc' = "azure_call"
    /\ UNCHANGED <<req, viaUI, genaiConfig, calls, behaviour, response,
                   raised, result, escaped, uiError, messages, snap>>

\* Neither branch matches: `response` is never bound and `if response is
\* None` raises UnboundLocalError.
InvokeNoBranch ==
    /\ pc = "invoke"
    /\ req.prompt # ""
    /\ req.llm_provider \notin KnownProviders
    /\ raised' = "UnboundLocalError"
    /\ pc' = "except"
    /\ UNCHANGED <<req, viaUI, genaiConfig, azureClient, secretsRead, calls,
                   behaviour, response, result, escaped, uiError, messages,
                   snap>>

\* Variant: a first failure of the backend call is followed by a second
\* attempt.
AfterHelper_RetryOnce(h) ==
    IF h.raised # "" /\ Len(calls) = 0
    THEN UNCHANGED <<pc, raised, response>>
    ELSE IF h.raised # ""
         THEN /\ raised' = h.raised
              /\ pc' = "except"
              /\ UNCHANGED response
         ELSE /\ response' = h.value
              /\ pc' = "check"
              /\ UNCHANGED raised

\* What follows a helper's outcome h in invoke.
AfterHelper(h) ==
    IF h.raised # ""
    THEN /\ raised' = h.raised
         /\ pc' = "except"
         /\ UNCHANGED response
    ELSE /\ response' = h.value
         /\ pc' = "check"
         /\ UNCHANGED raised

\* genai.GenerativeModel(model_name).generate_content(prompt) with the
\* process-global configuration, and the handling of its outcome.
GoogleGenerateContent ==
    \E b \in GeminiBehaviours :
        /\ pc = "google_call"
        /\ calls' = Append(calls, BackendRequest("gemini", genaiConfig,
                                                 req.model_name, req.prompt))
        /\ behaviour' = b
        /\ AfterHelper(GoogleGenerate(b))
        /\ UNCHANGED <<req, viaUI, genaiConfig, azureClient, secretsRead,
                       result, escaped, uiError, messages, snap>>

\* client.chat.completions.create(model=..., messages=[user prompt]) and the
\* handling of its outcome.
AzureCreate ==
    \E b \in AzureBehaviours :
        /\ pc = "azure_call"
        /\ calls' = Append(calls, BackendRequest("azure", azureClient,
                                                 req.model_name, req.prompt))
        /\ behaviour' = b
        /\ AfterHelper(AzureGenerate(b))
        /\ UNCHANGED <<req, viaUI, genaiConfig, azureClient, secretsRead,
                       result, escaped, uiError, messages, snap>>

\* Variant: the response is returned without the None test.
InvokeCheck_NoTest ==
    /\ pc = "check"
    /\ result' = response
    /\ pc' = "done"
    /\ UNCHANGED <<req, viaUI, genaiConfig, azureClient, secretsRead, calls,
                   behaviour, response, raised, escaped, uiError, messages,
                   snap>>

\* Variant: the test is `if not response:`.
InvokeCheck_Falsy ==
    /\ pc = "check"
    /\ IF response.isNone \/ response.text = ""
       THEN /\ raised' = "NoResponseException"
            /\ pc' = "except"
            /\ UNCHANGED result
       ELSE /\ result' = response
            /\ pc' = "done"
            /\ UNCHANGED raised
    /\ UNCHANGED <<req, viaUI, genaiConfig, azureClient, secretsRead, calls,
                   behaviour, response, escaped, uiError, messages, snap>>

\* `if response is None: raise NoResponseException()`, else return it.
InvokeCheck ==
    /\ pc = "check"
    /\ IF response.isNone
       THEN /\ raised' = "NoResponseException"
            /\ pc' = "except"
            /\ UNCHANGED result
       ELSE /\ result' = response
            /\ pc' = "done"
            /\ UNCHANGED raised
    /\ UNCHANGED <<req, viaUI, genaiConfig, azureClient, secretsRead, calls,
                   behaviour, response, escaped, uiError, messages, snap>>

\* The except clause of invoke.
InvokeHandler ==
    /\ pc = "except"
    /\ LET h == InvokeExcept(raised) IN
         /\ escaped' = h.raised
         /\ result' = IF h.raised = "" THEN h.value ELSE NotReturned
    /\ pc' = "done"
    /\ UNCHANGED <<req, viaUI, genaiConfig, azureClient, secretsRead, calls,
                   behaviour, response, raised, uiError, messages, snap>>

\* invoke is over; the observer may keep this invocation for comparison with
\* later ones.
Observed(keep) ==
    IF keep
    THEN Snapshot(TRUE, req, behaviour, Outcome(result, calls), FALSE)
    ELSE [snap EXCEPT !.mixed = @ \/ (snap.taken /\ req # snap.req)]

\* Control is back at the call site: the response is rendered and appended
\* to the chat history.
Render ==
    \E keep \in BOOLEAN :
        /\ pc = "done"
        /\ viaUI
        /\ IF escaped = ""
           THEN /\ messages' = Append(messages, Message("assistant", result.text))
                /\ UNCHANGED uiError
           ELSE /\ uiError' = escaped
                /\ UNCHANGED messages
        /\ snap' = Observed(keep)
        /\ LeaveInvoke
        /\ UNCHANGED genaiConfig

\* Control is back at a direct caller.
Return ==
    \E keep \in BOOLEAN :
        /\ pc = "done"
        /\ ~viaUI
        /\ snap' = Observed(keep)
        /\ LeaveInvoke
        /\ UNCHANGED <<genaiConfig, uiError, messages>>

Next ==
    \/ ChatInput
    \/ ChatInputUnknownProvider
    \/ InvokeCall
    \/ InvokeEmptyPrompt
    \/ GoogleSetup
    \/ AzureSetup
    \/ InvokeNoBranch
    \/ GoogleGenerateContent
    \/ AzureCreate
    \/ InvokeCheck
    \/ InvokeHandler
    \/ Render
    \/ Return

Spec == Init /\ [][Next]_vars

(* ------------------------------ properties ---------------------------- *)

\* An invocation is in progress or has just returned.
InInvoke == pc # "idle"

\* invoke has returned (or been left) and its caller has not resumed.
InvokeOver == pc = "done"

\* The error body carries the message field the provider's handler reads.
HasMessageField(llm_provider, body) ==
    /\ body.shape = "json"
    /\ body.hasMessage
    /\ llm_provider = "google-generativeai" => body.hasError

\* The key and endpoint the claim about credentials expects for a backend
\* and a mode.
ExpectedKey(backend, is_enterprise_mode) ==
    IF is_enterprise_mode THEN secret_variables.aether_api_key
    ELSE IF backend = "gemini" THEN secret_variables.google_api_key
    ELSE secret_variables.azure_api_key

ExpectedEndpoint(backend, is_enterprise_mode) ==
    IF is_enterprise_mode THEN secret_variables.aether_proxy_endpoint
    ELSE IF backend = "gemini" THEN DefaultEndpoint
    ELSE secret_variables.azure_endpoint

BackendOf(llm_provider) ==
    IF llm_provider = "google-generativeai" THEN "gemini" ELSE "azure"

\* C1: with an empty prompt, whatever the provider, model and mode, invoke
\* returns the advisory string, reads no secret, builds no client and sends
\* no backend request.
C1_EmptyPromptAdvisory ==
    (InInvoke /\ req.prompt = "") =>
        /\ calls = <<>>
        /\ secretsRead = {}
        /\ azureClient = Unconfigured
        /\ pc \in {"invoke", "done"}
        /\ InvokeOver => (result = Str(EmptyPromptMessage) /\ raised = "" /\ escaped = "")

C1_Witness ==
    /\ InvokeOver
    /\ req.prompt = ""
    /\ req.llm_provider = "google-generativeai"
    /\ req.is_enterprise_mode
    /\ result = Str(EmptyPromptMessage)
    /\ genaiConfig # Unconfigured

\* C2: with a provider that is neither known value, invoke fails with
\* LLMProviderNotFoundException before any secret is read, and no backend
\* request is sent.  (Stated for a non-empty prompt; the empty prompt is
\* answered by the advisory string of C1 before the provider is looked at.)
C2_UnknownProviderNotFound ==
    (InvokeOver /\ req.prompt # "" /\ req.llm_provider \notin KnownProviders) =>
        /\ raised = "LLMProviderNotFoundException"
        /\ secretsRead = {}
        /\ calls = <<>>

\* C3: the key and endpoint of every backend request are those of the
\* (provider, mode) pair: the proxy pair in enterprise mode, the provider's
\* own direct pair otherwise, never the proxy key or endpoint.
C3_CredentialsByMode ==
    \A i \in 1..Len(calls) :
        /\ calls[i].api_key = ExpectedKey(calls[i].backend, req.is_enterprise_mode)
        /\ calls[i].endpoint = ExpectedEndpoint(calls[i].backend, req.is_enterprise_mode)
        /\ ~req.is_enterprise_mode =>
              /\ calls[i].api_key # secret_variables.aether_api_key
              /\ calls[i].endpoint # secret_variables.aether_proxy_endpoint

C3_Witness ==
    /\ InvokeOver
    /\ Len(calls) = 1
    /\ calls[1].backend = "azure"
    /\ ~req.is_enterprise_mode
    /\ calls[1].endpoint = secret_variables.azure_endpoint
    /\ snap.taken
    /\ snap.req.is_enterprise_mode

\* C4: an invocation with a non-empty prompt and a known provider sends
\* exactly one request, to the selected provider, with the given model and
\* prompt, whether the backend answers, answers without text or fails.
C4_ExactlyOneRequest ==
    /\ Len(calls) <= 1
    /\ (InvokeOver /\ req.prompt # "" /\ req.llm_provider \in KnownProviders) =>
          /\ Len(calls) = 1
          /\ calls[1].backend = BackendOf(req.llm_provider)
          /\ calls[1].model = req.model_name
          /\ calls[1].prompt = req.prompt

C4_Witness ==
    /\ InvokeOver
    /\ req.llm_provider = "azure-openai"
    /\ behaviour.kind = "api_error"
    /\ raised = "AttributeError"
    /\ Len(calls) = 1
    /\ calls[1].backend = "azure"

\* C5: whatever the input and the backend's behaviour, invoke returns a
\* string and no exception leaves it.
C5_AlwaysReturnsString ==
    InvokeOver => (~result.isNone /\ escaped = "")

C5_Witness ==
    /\ InvokeOver
    /\ behaviour.kind = "other_error"
    /\ raised = "ValueError"
    /\ result = Str(GenericErrorMessage)
    /\ escaped = ""

\* C6: after an API error whose body carries the provider's message field,
\* invoke returns exactly that message.
C6_MessageFieldReturned ==
    (InvokeOver /\ behaviour.kind = "api_error"
        /\ HasMessageField(req.llm_provider, behaviour.body)) =>
        result = Str(behaviour.body.message)

C6_Witness ==
    /\ InvokeOver
    /\ req.llm_provider = "google-generativeai"
    /\ behaviour.kind = "api_error"
    /\ HasMessageField(req.llm_provider, behaviour.body)
    /\ result = Str("quota exceeded")

\* C7: after an API error whose body lacks the message field (key missing,
\* no "error" object, no HTTP response, body null or not a mapping), the
\* result is the repr of the exception, for both providers.
C7_FallbackToRepr ==
    (InvokeOver /\ behaviour.kind = "api_error"
        /\ ~HasMessageField(req.llm_provider, behaviour.body)) =>
        result = Str(behaviour.repr)

\* C8: when the Azure call succeeds with a null content, invoke raises
\* NoResponseException and the string returned is the failure string.
C8_AzureNoContent ==
    (InvokeOver /\ req.llm_provider = "azure-openai" /\ behaviour.kind = "no_text") =>
        /\ raised = "NoResponseException"
        /\ result = Str(GenericErrorMessage)

C8_Witness ==
    /\ InvokeOver
    /\ req.llm_provider = "azure-openai"
    /\ behaviour.kind = "no_text"
    /\ raised = "NoResponseException"
    /\ viaUI

\* C9: when the backend returns a non-null text, invoke returns exactly
\* that text.
C9_TextReturnedUnchanged ==
    (InvokeOver /\ behaviour.kind = "text") =>
        (result = Str(behaviour.text) /\ raised = "")

C9_Witness ==
    /\ InvokeOver
    /\ req.llm_provider = "google-generativeai"
    /\ behaviour.kind = "text"
    /\ behaviour.text = "hello"
    /\ result = Str("hello")

\* C10: an invocation with the same request and the same backend behaviour
\* as an earlier one has the same result and sends the same request with
\* the same credentials, whatever was invoked in between.
C10_Idempotent ==
    (InvokeOver /\ snap.taken /\ snap.req = req /\ snap.behaviour = behaviour) =>
        snap.outcome = Outcome(result, calls)

C10_Witness ==
    /\ InvokeOver
    /\ snap.taken
    /\ snap.mixed
    /\ snap.req = req
    /\ snap.behaviour = behaviour
    /\ req.llm_provider = "google-generativeai"
    /\ ~req.is_enterprise_mode
    /\ Len(calls) = 1
    /\ snap.outcome = Outcome(result, calls)

TypeOK ==
    /\ pc \in {"idle", "invoke", "google_call", "azure_call", "check", "except", "done"}
    /\ Len(messages) <= MaxMessages

====
